---- MODULE Spec2Model ----
(***************************************************************************)
(* Push-style traversal adaptors of src/src/ext.rs.                        *)
(*                                                                         *)
(* A pipeline is a tree of nodes.  A node is a base producer ("Src") or    *)
(* one of the adaptor structs of ext.rs.  One traversal is one nest of     *)
(* calls: traverse goes up the tree to the producer, every element comes   *)
(* down through the closures the adaptors handed to their upstreams, and   *)
(* every closure's boolean result goes back up.  pc is the place of        *)
(* control in that nest of calls:                                          *)
(*   traverse  node.traverse(f) has just been called                       *)
(*   elem      node has called its f with the element val                  *)
(*   ret       the f that node called has returned res                     *)
(*   exit      node.traverse(f) has returned                               *)
(*   done      the last terminal operation has returned                    *)
(***************************************************************************)
EXTENDS Integers, Sequences, FiniteSets, TLC

VARIABLES
    nodes,      \* the adaptor values, by node id (fixed once built)
    roots,      \* the outermost adaptor of each traversal the caller runs
    stopAt,     \* the caller's consumer returns true on its stopAt-th element (0: never)
    run,        \* index in roots of the traversal under way
    pc,         \* place of control
    items,      \* Src: the elements the producer holds
    pos,        \* Src: index of the next element to emit
    counter,    \* Enumerate, Skip, Take: `let mut counter`
    flag,       \* SkipWhile, Chain, FlatMap: `let mut flag`
    phase,      \* Chain: 1 while one.traverse runs, 2 while two.traverse runs
    out,        \* per traversal, the elements the caller's consumer received
    stopped,    \* the caller's consumer has returned true in this traversal
    seen,       \* per node, elements its closure(s) received from upstream
    fwd,        \* per node, elements it handed to its f
    calls,      \* per node, invocations of its user closure
    trav,       \* per node, invocations of its traverse
    rets        \* per node, the results the f it called has returned to it (Src only)

vars == <<nodes, roots, stopAt, run, pc, items, pos, counter, flag, phase,
          out, stopped, seen, fwd, calls, trav, rets>>

(***************************************************************************)
(* Bounds of the model.                                                    *)
(***************************************************************************)
MaxLen == 3     \* longest upstream sequence
MaxSub == 2     \* longest second sequence of a chain
MaxStop == 2    \* latest element on which the caller's consumer stops

Vals == {1, 2, 3}        \* elements of an upstream sequence
SubVals == {4, 5}       \* elements of the second sequence of a chain
MaxN == MaxLen + 1      \* skip(n), take(n): n up to one past the longest sequence

RECURSIVE SeqsUpTo(_, _)
SeqsUpTo(V, len) ==
    IF len = 0 THEN {<<>>}
    ELSE LET shorter == SeqsUpTo(V, len - 1)
         IN  shorter \cup {Append(s, v) : s \in {t \in shorter : Len(t) = len - 1}, v \in V}

\* the sequences of the concrete scenarios: [1,2,3,4,5], and "abc" with "de" as 1..5
Digits == <<1, 2, 3, 4, 5>>
Abc == <<1, 2, 3>>
De == <<4, 5>>

Seqs == SeqsUpTo(Vals, MaxLen) \cup {Digits}
SubSeqs == SeqsUpTo(SubVals, MaxSub)

Min(a, b) == IF a < b THEN a ELSE b
Max(a, b) == IF a > b THEN a ELSE b

(***************************************************************************)
(* User closures, by name.  They are inputs of the adaptors.               *)
(***************************************************************************)
\* FnMut(T) -> Option<O> of filter_map: <<>> is None, <<o>> is Some(o)
ApplyOpt(fn, t) ==
    CASE fn = "evenTimes10" -> IF t % 2 = 0 THEN <<t * 10>> ELSE <<>>
      [] fn = "lt3Succ" -> IF t < 3 THEN <<t + 1>> ELSE <<>>
      [] OTHER -> <<t>>

\* FnMut(T) -> O of map; "unwrap" is Option::unwrap, and the closures of
\* filter_map can be given to map, which then yields Options
Apply(fn, t) ==
    CASE fn = "times10" -> t * 10
      [] fn = "succ" -> t + 1
      [] fn = "unwrap" -> t[1]
      [] fn \in {"evenTimes10", "lt3Succ"} -> ApplyOpt(fn, t)
      [] OTHER -> t

\* FnMut(&T) -> bool of filter, skip_while, take_while
Holds(fn, t) ==
    CASE fn = "lt3" -> t < 3
      [] fn = "ge3" -> ~(t < 3)
      [] fn = "even" -> t % 2 = 0
      [] fn = "odd" -> ~(t % 2 = 0)
      [] fn = "isSome" -> t # <<>>
      [] OTHER -> TRUE

RECURSIVE Repeat(_, _)
Repeat(t, k) == IF k = 0 THEN <<>> ELSE <<t>> \o Repeat(t, k - 1)

\* FnMut(T) -> U of flat_map: the elements of the produced sub-sequence
Produce(fn, t) ==
    CASE fn = "rep" -> Repeat(t, t % 3)
      [] fn = "pair" -> <<t, t + 10>>
      [] OTHER -> <<t>>

(***************************************************************************)
(* Adaptor values.  iter is the wrapped upstream (Chain's one); two is     *)
(* Chain's two, and for FlatMap the node that stands for the sub-sequence  *)
(* producer(t) returns.                                                    *)
(***************************************************************************)
Src(s) == [kind |-> "Src", iter |-> 0, two |-> 0, n |-> 0, fn |-> "", items |-> s]
Ad(kind, up, n, fn) ==
    [kind |-> kind, iter |-> up, two |-> 0, n |-> n, fn |-> fn, items |-> <<>>]
Ad2(kind, up, other, fn) ==
    [kind |-> kind, iter |-> up, two |-> other, n |-> 0, fn |-> fn, items |-> <<>>]

Map(up, f) == Ad("Map", up, 0, f)
Filter(up, pred) == Ad("Filter", up, 0, pred)
FilterMap(up, pred) == Ad("FilterMap", up, 0, pred)
Enumerate(up) == Ad("Enumerate", up, 0, "")
Skip(up, n) == Ad("Skip", up, n, "")
Take(up, n) == Ad("Take", up, n, "")
SkipWhile(up, pred) == Ad("SkipWhile", up, 0, pred)
TakeWhile(up, pred) == Ad("TakeWhile", up, 0, pred)
Inspect(up, f) == Ad("Inspect", up, 0, f)
FlatMap(up, sub, f) == Ad2("FlatMap", up, sub, f)
Chain(one, other) == Ad2("Chain", one, other, "")

Pipe(ns, rs) == [nodes |-> ns, roots |-> rs]

\* one adaptor over a producer
Singles(s) ==
    {Pipe(<<Src(s), a>>, <<2>>) :
        a \in {Map(1, "times10"), Filter(1, "lt3"), Filter(1, "even"),
               FilterMap(1, "evenTimes10"), Enumerate(1), SkipWhile(1, "lt3"),
               TakeWhile(1, "lt3"), Inspect(1, "log")}
              \cup {Skip(1, n) : n \in 0..MaxN} \cup {Take(1, n) : n \in 0..MaxN}}

\* S.take(n).chain(S.skip(n))
SplitRejoin(s) ==
    {Pipe(<<Src(s), Take(1, n), Src(s), Skip(3, n), Chain(2, 4)>>, <<5>>) : n \in 0..MaxN}

\* S.chain(two), and chains whose one is cut short by an adaptor
Chains(s) ==
    {Pipe(<<Src(s), Src(t), Chain(1, 2)>>, <<3>>) : t \in SubSeqs}
    \cup {Pipe(<<Src(s), a, Src(De), Chain(2, 3)>>, <<4>>) :
            a \in {Take(1, n) : n \in 0..MaxN} \cup {TakeWhile(1, "lt3")}}

\* S.flat_map(g)
FlatMaps(s) ==
    {Pipe(<<Src(s), Src(<<>>), FlatMap(1, 2, g)>>, <<3>>) : g \in {"rep", "pair"}}

\* S.filter(p) and then S.filter(|x| !p(x)), one traversal after the other
Partitions(s) ==
    {Pipe(<<Src(s), Filter(1, p[1]), Src(s), Filter(3, p[2])>>, <<2, 4>>) :
        p \in {<<"lt3", "ge3">>, <<"even", "odd">>}}

\* two adaptors over a producer
Pairs(s) ==
    {Pipe(<<Src(s), Inspect(1, "log"), Take(2, n)>>, <<3>>) : n \in 0..MaxN}
    \cup {Pipe(<<Src(s), Filter(1, "even"), Map(2, "times10")>>, <<3>>)}

\* S.filter_map(g) and then S.map(g).filter(is_some).map(unwrap)
Fused(s) ==
    {Pipe(<<Src(s), FilterMap(1, g), Src(s), Map(3, g), Filter(4, "isSome"),
            Map(5, "unwrap")>>, <<2, 6>>) : g \in {"evenTimes10", "lt3Succ"}}

\* every adaptor in one pipeline:
\*   S.skip(n).chain(S.take_while(lt3)).flat_map(pair).filter(odd).map(succ)
\*    .inspect(log).enumerate()
\*   S.flat_map(rep).chain(S.take(n)).filter_map(evenTimes10).skip_while(lt3)
Stacks(s) ==
    {Pipe(<<Src(s), Skip(1, n), Src(s), TakeWhile(3, "lt3"), Chain(2, 4),
            Src(<<>>), FlatMap(5, 6, "pair"), Filter(7, "odd"), Map(8, "succ"),
            Inspect(9, "log"), Enumerate(10)>>, <<11>>) : n \in 0..1}
    \cup {Pipe(<<Src(s), Src(<<>>), FlatMap(1, 2, "rep"), Src(s), Take(4, n),
                 Chain(3, 5), FilterMap(6, "evenTimes10"), SkipWhile(7, "lt3")>>,
               <<8>>) : n \in 0..MaxN}

Pipes ==
    UNION {Singles(s) \cup SplitRejoin(s) \cup Chains(s) \cup FlatMaps(s)
           \cup Partitions(s) \cup Pairs(s) \cup Fused(s) \cup Stacks(s) : s \in Seqs}

Ids == DOMAIN nodes
Zero(ns) == [i \in DOMAIN ns |-> 0]

Init ==
    /\ \E p \in Pipes : nodes = p.nodes /\ roots = p.roots
    /\ stopAt \in 0..MaxStop
    /\ run = 1
    /\ pc = [op |-> "traverse", node |-> roots[1], val |-> 0, res |-> FALSE]
    /\ items = [i \in Ids |-> nodes[i].items]
    /\ pos = Zero(nodes)
    /\ counter = Zero(nodes)
    /\ flag = [i \in Ids |-> FALSE]
    /\ phase = Zero(nodes)
    /\ out = [r \in DOMAIN roots |-> <<>>]
    /\ stopped = FALSE
    /\ seen = Zero(nodes)
    /\ fwd = Zero(nodes)
    /\ calls = Zero(nodes)
    /\ trav = [i \in Ids |-> IF i = roots[1] THEN 1 ELSE 0]
    /\ rets = [i \in Ids |-> <<>>]

(***************************************************************************)
(* Places of control.                                                      *)
(***************************************************************************)
At(op, i, v, b) == [op |-> op, node |-> i, val |-> v, res |-> b]
Traversing(i) == At("traverse", i, 0, FALSE)
Elem(i, v) == At("elem", i, v, FALSE)
Ret(i, b) == At("ret", i, 0, b)
Exit(i) == At("exit", i, 0, FALSE)

\* the adaptor whose closure is the f that node e was handed; 0 is the caller
Down(e) ==
    IF \E j \in Ids : nodes[j].iter = e \/ nodes[j].two = e
    THEN CHOOSE j \in Ids : nodes[j].iter = e \/ nodes[j].two = e
    ELSE 0

Bump(f, i) == [f EXCEPT ![i] = @ + 1]

(***************************************************************************)
(* The base traversal capability: a producer emits its elements in order   *)
(* and stops on the first true its consumer returns.                       *)
(***************************************************************************)
SrcEmit(i, p) ==
    IF p <= Len(items[i])
    THEN /\ pc' = Elem(i, items[i][p])
         /\ pos' = [pos EXCEPT ![i] = p + 1]
         /\ fwd' = Bump(fwd, i)
    ELSE /\ pc' = Exit(i)
         /\ pos' = [pos EXCEPT ![i] = p]
         /\ fwd' = fwd

SrcTraverse(i) ==
    /\ pc.op = "traverse" /\ pc.node = i /\ nodes[i].kind = "Src"
    /\ SrcEmit(i, 1)
    /\ UNCHANGED <<nodes, roots, rets, stopAt, run, items, counter, flag, phase,
                   out, stopped, seen, calls, trav>>

SrcResume(i) ==
    /\ pc.op = "ret" /\ pc.node = i /\ nodes[i].kind = "Src"
    /\ rets' = [rets EXCEPT ![i] = Append(@, pc.res)]
    /\ IF pc.res
       THEN pc' = Exit(i) /\ UNCHANGED <<pos, fwd>>
       ELSE SrcEmit(i, pos[i])
    /\ UNCHANGED <<nodes, roots, stopAt, run, items, counter, flag, phase,
                   out, stopped, seen, calls, trav>>

(***************************************************************************)
(* The caller: count's closure never stops; a stopping consumer returns    *)
(* true on the stopAt-th element it receives.                              *)
(***************************************************************************)
ConsumerStops(k, received) == k # 0 /\ received >= k

Consume ==
    /\ pc.op = "elem" /\ Down(pc.node) = 0
    /\ out' = [out EXCEPT ![run] = Append(@, pc.val)]
    /\ LET b == ConsumerStops(stopAt, Len(out[run]) + 1)
       IN  /\ pc' = Ret(pc.node, b)
           /\ stopped' = (stopped \/ b)
    /\ UNCHANGED <<nodes, roots, rets, stopAt, run, items, pos, counter, flag, phase,
                   seen, fwd, calls, trav>>

NextTraversal ==
    /\ pc.op = "exit" /\ pc.node = roots[run] /\ run < Len(roots)
    /\ run' = run + 1
    /\ pc' = Traversing(roots[run + 1])
    /\ trav' = Bump(trav, roots[run + 1])
    /\ stopped' = FALSE
    /\ UNCHANGED <<nodes, roots, rets, stopAt, items, pos, counter, flag, phase,
                   out, seen, fwd, calls>>

Finish ==
    /\ pc.op = "exit" /\ pc.node = roots[run] /\ run = Len(roots)
    /\ pc' = At("done", 0, 0, FALSE)
    /\ UNCHANGED <<nodes, roots, rets, stopAt, run, items, pos, counter, flag, phase,
                   out, stopped, seen, fwd, calls, trav>>

(***************************************************************************)
(* What one call of an adaptor's closure does with the element t: it calls *)
(* f with val (call), or returns ret without calling f; c and fl are the   *)
(* closure's counter and flag afterwards, used the user closure calls.     *)
(***************************************************************************)
Forward(v, c, fl, used) ==
    [call |-> TRUE, val |-> v, ret |-> FALSE, counter |-> c, flag |-> fl, used |-> used]
Suppress(b, c, fl, used) ==
    [call |-> FALSE, val |-> 0, ret |-> b, counter |-> c, flag |-> fl, used |-> used]

\* a map that forwards the element without applying its closure
MapBodyIdentity(fn, c, fl, t) == Forward(t, c, fl, 0)

\* a map that swallows the elements its closure maps to 20
MapBodyDrops(fn, c, fl, t) ==
    IF Apply(fn, t) = 20 THEN Suppress(FALSE, c, fl, 1) ELSE Forward(Apply(fn, t), c, fl, 1)

\* f(closure(t))
MapBody(fn, c, fl, t) == Forward(Apply(fn, t), c, fl, 1)

\* a filter that stops the traversal on an element it rejects
FilterBodyStops(fn, c, fl, t) ==
    IF Holds(fn, t) THEN Forward(t, c, fl, 1) ELSE Suppress(TRUE, c, fl, 1)

\* if predicate(&t) { f(t) } else { false }
FilterBody(fn, c, fl, t) ==
    IF Holds(fn, t) THEN Forward(t, c, fl, 1) ELSE Suppress(FALSE, c, fl, 1)

\* a filter_map that stops the traversal on None
FilterMapBodyStopsOnNone(fn, c, fl, t) ==
    LET o == ApplyOpt(fn, t)
    IN  IF o # <<>> THEN Forward(o[1], c, fl, 1) ELSE Suppress(TRUE, c, fl, 1)

\* match predicate(t) { Some(o) => f(o), None => false }
FilterMapBody(fn, c, fl, t) ==
    LET o == ApplyOpt(fn, t)
    IN  IF o # <<>> THEN Forward(o[1], c, fl, 1) ELSE Suppress(FALSE, c, fl, 1)

\* an enumerate that numbers from one
EnumerateBodyFromOne(c, fl, t) == Forward(<<c + 1, t>>, c, fl, 0)

\* let res = f((counter, t));
EnumerateBody(c, fl, t) == Forward(<<c, t>>, c, fl, 0)

\* if counter != n { counter += 1; true } else { f(t) }
SkipBody(n, c, fl, t) ==
    IF c # n THEN Suppress(TRUE, c + 1, fl, 0) ELSE Forward(t, c, fl, 0)

\* a take that suppresses the elements past its quota without stopping
TakeBodyDrains(n, c, fl, t) ==
    IF c # n THEN Forward(t, c + 1, fl, 0) ELSE Suppress(FALSE, c, fl, 0)

\* a take that lets one element too many through
TakeBodyOneMore(n, c, fl, t) ==
    IF c # n + 1 THEN Forward(t, c + 1, fl, 0) ELSE Suppress(TRUE, c, fl, 0)

\* if counter != n { counter += 1; f(t) } else { true }
TakeBody(n, c, fl, t) ==
    IF c # n THEN Forward(t, c + 1, fl, 0) ELSE Suppress(TRUE, c, fl, 0)

\* if flag { if !predicate(&t) { flag = true; } false } else { f(t) }
SkipWhileBody(fn, c, fl, t) ==
    IF fl
    THEN Suppress(FALSE, c, IF ~Holds(fn, t) THEN TRUE ELSE fl, 1)
    ELSE Forward(t, c, fl, 0)

\* a take_while that, like filter, continues past an element its predicate rejects
TakeWhileBodyFilters(fn, c, fl, t) ==
    IF Holds(fn, t) THEN Forward(t, c, fl, 1) ELSE Suppress(FALSE, c, fl, 1)

\* if predicate(&t) { f(t) } else { true }
TakeWhileBody(fn, c, fl, t) ==
    IF Holds(fn, t) THEN Forward(t, c, fl, 1) ELSE Suppress(TRUE, c, fl, 1)

\* an inspect that forwards the element without calling its callback
InspectBodySilent(fn, c, fl, t) == Forward(t, c, fl, 0)

\* closure(&t); f(t)
InspectBody(fn, c, fl, t) == Forward(t, c, fl, 1)

\* adaptor i's traverse: its locals are set up and iter.traverse(closure) is called
Enter(i, kind) ==
    /\ pc.op = "traverse" /\ pc.node = i /\ nodes[i].kind = kind
    /\ pc' = Traversing(nodes[i].iter)
    /\ trav' = Bump(trav, nodes[i].iter)
    /\ UNCHANGED <<nodes, roots, rets, stopAt, run, items, pos, out, stopped, seen, fwd, calls>>

\* adaptor i's closure runs on the element its upstream emitted
Closure(i, kind, body) ==
    /\ pc.op = "elem" /\ Down(pc.node) = i /\ nodes[i].kind = kind
    /\ seen' = Bump(seen, i)
    /\ calls' = [calls EXCEPT ![i] = @ + body.used]
    /\ counter' = [counter EXCEPT ![i] = body.counter]
    /\ flag' = [flag EXCEPT ![i] = body.flag]
    /\ IF body.call
       THEN pc' = Elem(i, body.val) /\ fwd' = Bump(fwd, i)
       ELSE pc' = Ret(pc.node, body.ret) /\ fwd' = fwd
    /\ UNCHANGED <<nodes, roots, rets, stopAt, run, items, pos, phase, out, stopped, trav>>

MapTraverse(i) == Enter(i, "Map") /\ UNCHANGED <<counter, flag, phase>>
MapClosure(i) == Closure(i, "Map", MapBody(nodes[i].fn, counter[i], flag[i], pc.val))

FilterTraverse(i) == Enter(i, "Filter") /\ UNCHANGED <<counter, flag, phase>>
FilterClosure(i) ==
    Closure(i, "Filter", FilterBody(nodes[i].fn, counter[i], flag[i], pc.val))

FilterMapTraverse(i) == Enter(i, "FilterMap") /\ UNCHANGED <<counter, flag, phase>>
FilterMapClosure(i) ==
    Closure(i, "FilterMap", FilterMapBody(nodes[i].fn, counter[i], flag[i], pc.val))

EnumerateTraverse(i) ==
    /\ Enter(i, "Enumerate")
    /\ counter' = [counter EXCEPT ![i] = 0]
    /\ UNCHANGED <<flag, phase>>
EnumerateClosure(i) ==
    Closure(i, "Enumerate", EnumerateBody(counter[i], flag[i], pc.val))

SkipTraverse(i) ==
    /\ Enter(i, "Skip")
    /\ counter' = [counter EXCEPT ![i] = 0]
    /\ UNCHANGED <<flag, phase>>
SkipClosure(i) == Closure(i, "Skip", SkipBody(nodes[i].n, counter[i], flag[i], pc.val))

TakeTraverse(i) ==
    /\ Enter(i, "Take")
    /\ counter' = [counter EXCEPT ![i] = 0]
    /\ UNCHANGED <<flag, phase>>
TakeClosure(i) == Closure(i, "Take", TakeBody(nodes[i].n, counter[i], flag[i], pc.val))

SkipWhileTraverse(i) ==
    /\ Enter(i, "SkipWhile")
    /\ flag' = [flag EXCEPT ![i] = FALSE]
    /\ UNCHANGED <<counter, phase>>
SkipWhileClosure(i) ==
    Closure(i, "SkipWhile", SkipWhileBody(nodes[i].fn, counter[i], flag[i], pc.val))

TakeWhileTraverse(i) == Enter(i, "TakeWhile") /\ UNCHANGED <<counter, flag, phase>>
TakeWhileClosure(i) ==
    Closure(i, "TakeWhile", TakeWhileBody(nodes[i].fn, counter[i], flag[i], pc.val))

InspectTraverse(i) == Enter(i, "Inspect") /\ UNCHANGED <<counter, flag, phase>>
InspectClosure(i) ==
    Closure(i, "Inspect", InspectBody(nodes[i].fn, counter[i], flag[i], pc.val))

\* the closures that end in a call of f return what f returned
TailKinds == {"Map", "Filter", "FilterMap", "Skip", "Take", "SkipWhile", "TakeWhile",
              "Inspect"}

\* closures that call f a second time, with a default element, when f continues
TailReturnCallsAgain(i) ==
    /\ pc.op = "ret" /\ pc.node = i /\ nodes[i].kind \in TailKinds
    /\ IF ~pc.res /\ fwd[i] = seen[i]
       THEN pc' = Elem(i, 0) /\ fwd' = Bump(fwd, i)
       ELSE pc' = Ret(nodes[i].iter, pc.res) /\ fwd' = fwd
    /\ UNCHANGED <<nodes, roots, rets, stopAt, run, items, pos, counter, flag, phase,
                   out, stopped, seen, calls, trav>>

\* closures that drop what f returned and always continue
TailReturnDropsStop(i) ==
    /\ pc.op = "ret" /\ pc.node = i /\ nodes[i].kind \in TailKinds
    /\ pc' = Ret(nodes[i].iter, FALSE)
    /\ UNCHANGED <<nodes, roots, rets, stopAt, run, items, pos, counter, flag, phase,
                   out, stopped, seen, fwd, calls, trav>>

TailReturn(i) ==
    /\ pc.op = "ret" /\ pc.node = i /\ nodes[i].kind \in TailKinds
    /\ pc' = Ret(nodes[i].iter, pc.res)
    /\ UNCHANGED <<nodes, roots, rets, stopAt, run, items, pos, counter, flag, phase,
                   out, stopped, seen, fwd, calls, trav>>

\* counter += 1; res
EnumerateReturn(i) ==
    /\ pc.op = "ret" /\ pc.node = i /\ nodes[i].kind = "Enumerate"
    /\ counter' = Bump(counter, i)
    /\ pc' = Ret(nodes[i].iter, pc.res)
    /\ UNCHANGED <<nodes, roots, rets, stopAt, run, items, pos, flag, phase,
                   out, stopped, seen, fwd, calls, trav>>

\* iter.traverse(closure) has returned, and with it the adaptor's traverse
TraverseReturn(i) ==
    /\ pc.op = "exit" /\ pc.node = nodes[i].iter
    /\ nodes[i].kind \in TailKinds \cup {"Enumerate", "FlatMap"}
    /\ pc' = Exit(i)
    /\ UNCHANGED <<nodes, roots, rets, stopAt, run, items, pos, counter, flag, phase,
                   out, stopped, seen, fwd, calls, trav>>

(***************************************************************************)
(* Chain                                                                   *)
(***************************************************************************)
\* let mut flag = false; self.one.traverse(..)
ChainTraverse(i) ==
    /\ Enter(i, "Chain")
    /\ flag' = [flag EXCEPT ![i] = FALSE]
    /\ phase' = [phase EXCEPT ![i] = 1]
    /\ UNCHANGED counter

\* |t| { flag = f(t); flag } and |t| { f(t) }: f is called with t
ChainClosure(i) ==
    /\ UNCHANGED phase
    /\ Closure(i, "Chain", Forward(pc.val, counter[i], flag[i], 0))

\* a chain that returns f's result without recording it in flag
ChainOneReturnNoFlag(i) ==
    /\ pc.op = "ret" /\ pc.node = i /\ nodes[i].kind = "Chain" /\ phase[i] = 1
    /\ pc' = Ret(nodes[i].iter, pc.res)
    /\ UNCHANGED <<nodes, roots, rets, stopAt, run, items, pos, counter, flag, phase,
                   out, stopped, seen, fwd, calls, trav>>

\* flag = f(t); flag
ChainOneReturn(i) ==
    /\ pc.op = "ret" /\ pc.node = i /\ nodes[i].kind = "Chain" /\ phase[i] = 1
    /\ flag' = [flag EXCEPT ![i] = pc.res]
    /\ pc' = Ret(nodes[i].iter, pc.res)
    /\ UNCHANGED <<nodes, roots, rets, stopAt, run, items, pos, counter, phase,
                   out, stopped, seen, fwd, calls, trav>>

\* f(t)
ChainTwoReturn(i) ==
    /\ pc.op = "ret" /\ pc.node = i /\ nodes[i].kind = "Chain" /\ phase[i] = 2
    /\ pc' = Ret(nodes[i].two, pc.res)
    /\ UNCHANGED <<nodes, roots, rets, stopAt, run, items, pos, counter, flag, phase,
                   out, stopped, seen, fwd, calls, trav>>

\* a chain with the test of flag inverted
ChainRunsTwoIfStopped(fl) == fl

\* a chain that traverses two whatever flag says
ChainRunsTwoAlways(fl) == TRUE

\* if !flag
ChainRunsTwo(fl) == ~fl

\* one.traverse(..) has returned: if !flag { self.two.traverse(..) }
ChainAfterOne(i) ==
    /\ pc.op = "exit" /\ pc.node = nodes[i].iter /\ nodes[i].kind = "Chain"
    /\ IF ChainRunsTwo(flag[i])
       THEN /\ pc' = Traversing(nodes[i].two)
            /\ trav' = Bump(trav, nodes[i].two)
            /\ phase' = [phase EXCEPT ![i] = 2]
       ELSE /\ pc' = Exit(i)
            /\ UNCHANGED <<trav, phase>>
    /\ UNCHANGED <<nodes, roots, rets, stopAt, run, items, pos, counter, flag,
                   out, stopped, seen, fwd, calls>>

\* two.traverse(..) has returned
ChainAfterTwo(i) ==
    /\ pc.op = "exit" /\ pc.node = nodes[i].two /\ nodes[i].kind = "Chain"
    /\ pc' = Exit(i)
    /\ UNCHANGED <<nodes, roots, rets, stopAt, run, items, pos, counter, flag, phase,
                   out, stopped, seen, fwd, calls, trav>>

(***************************************************************************)
(* FlatMap                                                                 *)
(***************************************************************************)
\* let mut flag = false; self.iter.traverse(..)
FlatMapTraverse(i) ==
    /\ Enter(i, "FlatMap")
    /\ flag' = [flag EXCEPT ![i] = FALSE]
    /\ UNCHANGED <<counter, phase>>

\* |t| { producer(t).traverse(..)
FlatMapClosure(i) ==
    /\ pc.op = "elem" /\ pc.node = nodes[i].iter /\ nodes[i].kind = "FlatMap"
    /\ seen' = Bump(seen, i)
    /\ calls' = Bump(calls, i)
    /\ items' = [items EXCEPT ![nodes[i].two] = Produce(nodes[i].fn, pc.val)]
    /\ pc' = Traversing(nodes[i].two)
    /\ trav' = Bump(trav, nodes[i].two)
    /\ UNCHANGED <<nodes, roots, rets, stopAt, run, pos, counter, flag, phase,
                   out, stopped, fwd>>

\* |o| { flag = f(o); flag }: f is called with o
FlatMapInnerClosure(i) ==
    /\ pc.op = "elem" /\ pc.node = nodes[i].two /\ nodes[i].kind = "FlatMap"
    /\ pc' = Elem(i, pc.val)
    /\ fwd' = Bump(fwd, i)
    /\ UNCHANGED <<nodes, roots, rets, stopAt, run, items, pos, counter, flag, phase,
                   out, stopped, seen, calls, trav>>

\* flag = f(o); flag
FlatMapInnerReturn(i) ==
    /\ pc.op = "ret" /\ pc.node = i /\ nodes[i].kind = "FlatMap"
    /\ flag' = [flag EXCEPT ![i] = pc.res]
    /\ pc' = Ret(nodes[i].two, pc.res)
    /\ UNCHANGED <<nodes, roots, rets, stopAt, run, items, pos, counter, phase,
                   out, stopped, seen, fwd, calls, trav>>

\* a flat_map whose outer closure always continues
FlatMapAfterInnerContinues(i) ==
    /\ pc.op = "exit" /\ pc.node = nodes[i].two /\ nodes[i].kind = "FlatMap"
    /\ pc' = Ret(nodes[i].iter, FALSE)
    /\ UNCHANGED <<nodes, roots, rets, stopAt, run, items, pos, counter, flag, phase,
                   out, stopped, seen, fwd, calls, trav>>

\* producer(t).traverse(..) has returned: the outer closure returns flag
FlatMapAfterInner(i) ==
    /\ pc.op = "exit" /\ pc.node = nodes[i].two /\ nodes[i].kind = "FlatMap"
    /\ pc' = Ret(nodes[i].iter, flag[i])
    /\ UNCHANGED <<nodes, roots, rets, stopAt, run, items, pos, counter, flag, phase,
                   out, stopped, seen, fwd, calls, trav>>

(***************************************************************************)
(* Specification                                                           *)
(***************************************************************************)
Next ==
    \/ Consume
    \/ NextTraversal
    \/ Finish
    \/ \E i \in Ids : SrcTraverse(i)
    \/ \E i \in Ids : SrcResume(i)
    \/ \E i \in Ids : MapTraverse(i)
    \/ \E i \in Ids : MapClosure(i)
    \/ \E i \in Ids : FilterTraverse(i)
    \/ \E i \in Ids : FilterClosure(i)
    \/ \E i \in Ids : FilterMapTraverse(i)
    \/ \E i \in Ids : FilterMapClosure(i)
    \/ \E i \in Ids : EnumerateTraverse(i)
    \/ \E i \in Ids : EnumerateClosure(i)
    \/ \E i \in Ids : EnumerateReturn(i)
    \/ \E i \in Ids : SkipTraverse(i)
    \/ \E i \in Ids : SkipClosure(i)
    \/ \E i \in Ids : TakeTraverse(i)
    \/ \E i \in Ids : TakeClosure(i)
    \/ \E i \in Ids : SkipWhileTraverse(i)
    \/ \E i \in Ids : SkipWhileClosure(i)
    \/ \E i \in Ids : TakeWhileTraverse(i)
    \/ \E i \in Ids : TakeWhileClosure(i)
    \/ \E i \in Ids : InspectTraverse(i)
    \/ \E i \in Ids : InspectClosure(i)
    \/ \E i \in Ids : TailReturn(i)
    \/ \E i \in Ids : TraverseReturn(i)
    \/ \E i \in Ids : ChainTraverse(i)
    \/ \E i \in Ids : ChainClosure(i)
    \/ \E i \in Ids : ChainOneReturn(i)
    \/ \E i \in Ids : ChainTwoReturn(i)
    \/ \E i \in Ids : ChainAfterOne(i)
    \/ \E i \in Ids : ChainAfterTwo(i)
    \/ \E i \in Ids : FlatMapTraverse(i)
    \/ \E i \in Ids : FlatMapClosure(i)
    \/ \E i \in Ids : FlatMapInnerClosure(i)
    \/ \E i \in Ids : FlatMapInnerReturn(i)
    \/ \E i \in Ids : FlatMapAfterInner(i)

Spec == Init /\ [][Next]_vars

Done == pc.op = "done"

TypeOK ==
    /\ pc.op \in {"traverse", "elem", "ret", "exit", "done"}
    /\ run \in DOMAIN roots
    /\ \A i \in Ids : counter[i] >= 0 /\ pos[i] >= 0

(***************************************************************************)
(* Shapes of pipeline the properties speak of, and what they should deliver *)
(***************************************************************************)
\* S.<kind>(..): one adaptor (node 2) over the producer of S (node 1)
Single(kind) == Len(nodes) = 2 /\ nodes[2].kind = kind

\* S.take(n).chain(S.skip(n))
IsSplitRejoin ==
    /\ Len(nodes) = 5 /\ nodes[5].kind = "Chain"
    /\ nodes[2].kind = "Take" /\ nodes[4].kind = "Skip" /\ nodes[2].n = nodes[4].n
    /\ nodes[1].items = nodes[3].items

\* one.chain(two) of two producers
IsChain == Len(nodes) = 3 /\ nodes[3].kind = "Chain"

\* S.flat_map(g)
IsFlatMap == Len(nodes) = 3 /\ nodes[3].kind = "FlatMap"

\* S.filter(p) and S.filter(|x| !p(x))
IsPartition ==
    /\ Len(roots) = 2 /\ Len(nodes) = 4
    /\ nodes[2].kind = "Filter" /\ nodes[4].kind = "Filter"
    /\ nodes[1].items = nodes[3].items
    /\ \A v \in Vals \cup {4, 5} : Holds(nodes[2].fn, v) # Holds(nodes[4].fn, v)

\* the pipeline that ends in enumerate() over every other kind of adaptor
IsStack == Len(nodes) = 11 /\ nodes[11].kind = "Enumerate"

Count(r) == Len(out[r])

IsPrefix(s, t) == Len(s) <= Len(t) /\ s = SubSeq(t, 1, Len(s))

\* s up to and including the k-th element, the one the consumer stops on
Cut(s, k) == IF k = 0 \/ k > Len(s) THEN s ELSE SubSeq(s, 1, k)

RECURSIVE DropWhile(_, _)
DropWhile(fn, s) ==
    IF s = <<>> THEN <<>>
    ELSE IF Holds(fn, Head(s)) THEN DropWhile(fn, Tail(s)) ELSE s

RECURSIVE Flatten(_, _)
Flatten(fn, s) ==
    IF s = <<>> THEN <<>> ELSE Produce(fn, Head(s)) \o Flatten(fn, Tail(s))

(***************************************************************************)
(* Properties                                                              *)
(***************************************************************************)

\* C1: S.skip(n).count() == max(0, S.count() - n) for every finite S and n >= 0.
SkipCount ==
    (Single("Skip") /\ stopAt = 0 /\ Done)
        => Count(1) = Max(0, Len(nodes[1].items) - nodes[2].n)

\* C2: skip_while(p) suppresses the leading elements on which p holds and the
\* first element on which p fails, and forwards every later element; so
\* [1,2,3,4,5].skip_while(|x| *x < 3) collects to [4, 5].
SkipWhileDropsPrefixAndBoundary ==
    (Single("SkipWhile") /\ stopAt = 0 /\ Done)
        => LET rest == DropWhile(nodes[2].fn, nodes[1].items)
           IN  out[1] = IF rest = <<>> THEN <<>> ELSE Tail(rest)

\* C3: S.take(n).chain(S.skip(n)) driven to completion delivers exactly S.
SplitRejoinIdentity ==
    (IsSplitRejoin /\ stopAt = 0 /\ Done) => out[1] = nodes[1].items

\* C4: once the caller's consumer has returned stop, no closure of any layer
\* receives another element, no user closure is invoked, no producer emits, and
\* no counter advances for a later element (Enumerate's counter only catches up
\* with the element the stop was returned on).
NoWorkAfterStop ==
    [][stopped =>
        /\ seen' = seen /\ calls' = calls /\ fwd' = fwd /\ pos' = pos
        /\ \A i \in Ids :
            counter'[i] # counter[i]
                => nodes[i].kind = "Enumerate" /\ counter'[i] = seen[i]]_vars

NoWorkAfterStopReached ==
    /\ IsStack /\ Done /\ stopped
    /\ fwd[1] + fwd[3] < Len(items[1]) + Len(items[3])
    /\ \A i \in 7..11 : seen[i] >= 1

\* C5: within one traversal, the caller's consumer is never invoked again after
\* it has returned stop, and no traverse is called after that point.
StopIsFinal ==
    [][(stopped /\ run' = run) => (out' = out /\ trav' = trav)]_vars

StopIsFinalReached ==
    /\ IsStack /\ Done /\ stopped
    /\ phase[5] = 1 /\ trav[4] = 0 /\ nodes[3].items # <<>>
    /\ pos[1] <= Len(items[1]) /\ trav[6] >= 1

\* C6: S.take(n) delivers the first min(n, S.count()) elements of S, in order.
TakeFirstN ==
    (Single("Take") /\ stopAt = 0 /\ Done)
        => /\ Count(1) = Min(nodes[2].n, Len(nodes[1].items))
           /\ out[1] = SubSeq(nodes[1].items, 1, Min(nodes[2].n, Len(nodes[1].items)))

TakeFirstNReached ==
    /\ Single("Take") /\ stopAt = 0 /\ Done
    /\ nodes[2].n >= 1 /\ nodes[2].n < Len(nodes[1].items)
    /\ Count(1) = nodes[2].n

\* C7: S.flat_map(g) delivers the concatenation of g(s) for each s of S in
\* order, cut off right after the first element the consumer stops on.
FlatMapFlattens ==
    IsFlatMap =>
        LET all == Flatten(nodes[3].fn, nodes[1].items)
        IN  /\ IsPrefix(out[1], Cut(all, stopAt))
            /\ Done => out[1] = Cut(all, stopAt)

FlatMapFlattensReached ==
    /\ IsFlatMap /\ Done /\ stopAt = 2
    /\ Len(Flatten(nodes[3].fn, nodes[1].items)) > 2
    /\ Count(1) = 2
    /\ seen[3] >= 2

\* C8: one.chain(two) delivers one's elements and then two's when the consumer
\* never stops ("abc" with "de" gives "abcde"); when the consumer stops on an
\* element of one, two's traverse is never called.
ChainConcatenates ==
    /\ (IsChain /\ stopAt = 0 /\ Done) => out[1] = nodes[1].items \o nodes[2].items
    /\ (IsChain /\ stopAt # 0 /\ stopAt <= Len(nodes[1].items)) => trav[2] = 0

ChainConcatenatesReached ==
    /\ IsChain /\ Done
    /\ stopAt = 0 /\ nodes[1].items = Abc /\ nodes[2].items = De
    /\ out[1] = Digits /\ trav[2] = 1

\* C9: S.filter(p).count() + S.filter(|x| !p(x)).count() == S.count(): each
\* element of S is delivered by exactly one of the two filters.
FilterPartition ==
    (IsPartition /\ stopAt = 0 /\ Done)
        => /\ Count(1) + Count(2) = Len(nodes[1].items)
           /\ out[1] = SelectSeq(nodes[1].items, LAMBDA v : Holds(nodes[2].fn, v))
           /\ out[2] = SelectSeq(nodes[1].items, LAMBDA v : Holds(nodes[4].fn, v))

FilterPartitionReached ==
    /\ IsPartition /\ stopAt = 0 /\ Done
    /\ Count(1) >= 1 /\ Count(2) >= 1

\* C10: S.enumerate() delivers (i, the i-th element of S) as its i-th element,
\* i counted from 0.
EnumerateIndexes ==
    Single("Enumerate") =>
        /\ Count(1) <= Len(nodes[1].items)
        /\ \A j \in 1..Count(1) : out[1][j] = <<j - 1, nodes[1].items[j]>>
        /\ (stopAt = 0 /\ Done) => Count(1) = Len(nodes[1].items)

EnumerateIndexesReached ==
    Single("Enumerate") /\ stopAt = 0 /\ Done /\ Count(1) = MaxLen

\* S.filter(p).map(f)
IsFilterMapped ==
    Len(nodes) = 3 /\ nodes[2].kind = "Filter" /\ nodes[3].kind = "Map"

RECURSIVE MapSeq(_, _)
MapSeq(fn, s) == IF s = <<>> THEN <<>> ELSE <<Apply(fn, Head(s))>> \o MapSeq(fn, Tail(s))

\* C11: S.filter(p).map(f) delivers f(x) for each x of S with p(x), in S's
\* order; [1,2,3,4,5].filter(|x| x % 2 == 0).map(|x| x * 10) collects to [20, 40].
FilterThenMap ==
    (IsFilterMapped /\ stopAt = 0 /\ Done)
        => /\ out[1] = MapSeq(nodes[3].fn,
                              SelectSeq(nodes[1].items, LAMBDA v : Holds(nodes[2].fn, v)))
           /\ nodes[1].items = Digits => out[1] = <<20, 40>>

FilterThenMapReached ==
    /\ IsFilterMapped /\ stopAt = 0 /\ Done
    /\ nodes[1].items = Digits /\ nodes[2].fn = "even" /\ nodes[3].fn = "times10"
    /\ out[1] = <<20, 40>>

\* C12: S.map(f).count() == S.count(): Map forwards one output per upstream
\* element, and never suppresses an element or stops on its own.
MapKeepsCount ==
    Single("Map") =>
        /\ fwd[2] = seen[2]
        /\ (pc.op = "ret" /\ pc.node = 1) => pc.res = stopped
        /\ (stopAt = 0 /\ Done) => Count(1) = Len(nodes[1].items)

MapKeepsCountReached ==
    Single("Map") /\ stopAt = 0 /\ Done /\ Count(1) = MaxLen /\ calls[2] = MaxLen

\* C13: for each element Skip receives while its counter is not yet n, Skip
\* does not call the consumer and returns continue (false), so the upstream goes
\* on to emit its next element.
SkipContinuesWhileSkipping ==
    Single("Skip") =>
        /\ Count(1) <= Max(0, seen[2] - nodes[2].n)
        /\ (pc.op = "ret" /\ pc.node = 1 /\ seen[2] <= nodes[2].n) => pc.res = FALSE
        /\ (stopAt = 0 /\ Done) => fwd[1] = Len(nodes[1].items)

RECURSIVE TakePrefix(_, _)
TakePrefix(fn, s) ==
    IF s = <<>> \/ ~Holds(fn, Head(s)) THEN <<>>
    ELSE <<Head(s)>> \o TakePrefix(fn, Tail(s))

\* C14: take_while(p) forwards the longest prefix of the upstream on which p
\* holds (up to the consumer's stop); on the first element where p is false it
\* forwards nothing and returns stop, and p is evaluated on no later element.
TakeWhilePrefix ==
    Single("TakeWhile") =>
        LET prefix == TakePrefix(nodes[2].fn, nodes[1].items)
        IN  /\ IsPrefix(out[1], Cut(prefix, stopAt))
            /\ Done => out[1] = Cut(prefix, stopAt)
            /\ fwd[2] <= Len(prefix)
            /\ calls[2] <= Min(Len(prefix) + 1, Len(nodes[1].items))
            /\ (pc.op = "ret" /\ pc.node = 1 /\ seen[2] > Len(prefix)) => pc.res = TRUE

TakeWhilePrefixReached ==
    /\ Single("TakeWhile") /\ stopAt = 0 /\ Done
    /\ Count(1) >= 1
    /\ calls[2] = Count(1) + 1 /\ calls[2] < Len(nodes[1].items)

\* elements node e has emitted that the closure below it has already received
Delivered(e) == fwd[e] - (IF pc.op = "elem" /\ pc.node = e THEN 1 ELSE 0)

\* C15: Inspect calls its callback exactly once for each element its upstream
\* emits, before the element reaches the consumer, forwards the element
\* unchanged and returns the consumer's flag unchanged; the callback never runs
\* for an element the upstream did not emit.
InspectOncePerElement ==
    /\ \A i \in Ids :
        nodes[i].kind = "Inspect" =>
            /\ calls[i] = Delivered(nodes[i].iter)
            /\ calls[i] = seen[i]
            /\ fwd[i] = seen[i]
    /\ Single("Inspect") =>
        /\ Count(1) <= calls[2]
        /\ IsPrefix(out[1], nodes[1].items)
        /\ (pc.op = "elem" /\ pc.node = 2) => pc.val = nodes[1].items[seen[2]]
        /\ (pc.op = "ret" /\ pc.node = 1) => pc.res = stopped

InspectOncePerElementReached ==
    /\ Done /\ stopped
    /\ \E i \in Ids :
        /\ nodes[i].kind = "Inspect" /\ nodes[nodes[i].iter].kind = "Src"
        /\ calls[i] >= 2 /\ calls[i] < Len(items[nodes[i].iter])

\* S.filter_map(g) and S.map(g).filter(is_some).map(unwrap)
IsFused ==
    /\ Len(roots) = 2 /\ Len(nodes) = 6
    /\ nodes[2].kind = "FilterMap" /\ nodes[4].kind = "Map" /\ nodes[4].fn = nodes[2].fn
    /\ nodes[5].kind = "Filter" /\ nodes[5].fn = "isSome"
    /\ nodes[6].kind = "Map" /\ nodes[6].fn = "unwrap"
    /\ nodes[1].items = nodes[3].items

\* C16: with the same consumer, S.filter_map(g) delivers the same elements and
\* returns the same stop flags to its upstream as
\* S.map(g).filter(is_some).map(unwrap).
FilterMapIsMapFilterMap ==
    (IsFused /\ Done) => (out[1] = out[2] /\ rets[1] = rets[3])

FilterMapIsMapFilterMapReached ==
    /\ IsFused /\ Done /\ stopped
    /\ Count(1) >= 1 /\ seen[2] > fwd[2]
    /\ Len(rets[1]) < Len(nodes[1].items)
    /\ rets[1][Len(rets[1])] = TRUE

\* C17: at every point of a traversal, each adaptor with one upstream has
\* forwarded to its consumer at most as many elements as its upstream has
\* emitted to it.
ForwardsAtMostReceived ==
    \A i \in Ids :
        nodes[i].kind \in TailKinds \cup {"Enumerate"}
            => /\ fwd[i] <= seen[i]
               /\ seen[i] = Delivered(nodes[i].iter)

ForwardsAtMostReceivedReached ==
    /\ IsStack /\ Done
    /\ seen[8] > fwd[8] /\ fwd[8] >= 1
    /\ fwd[11] = seen[11] /\ fwd[11] >= 1
    /\ seen[4] > fwd[4]

\* S.inspect(f).take(n)
IsInspectTake ==
    Len(nodes) = 3 /\ nodes[2].kind = "Inspect" /\ nodes[3].kind = "Take"

\* C18: when the upstream has more than n elements and the consumer never
\* stops, take(n) makes its upstream emit exactly n + 1 elements: the stop is
\* returned on element n + 1, which is suppressed, so an inspect callback placed
\* before take runs once more than the number of elements forwarded.
TakePullsOneMore ==
    /\ (Single("Take") /\ stopAt = 0 /\ Done /\ Len(nodes[1].items) > nodes[2].n)
        => /\ fwd[1] = nodes[2].n + 1
           /\ Count(1) = nodes[2].n
           /\ rets[1][nodes[2].n + 1] = TRUE
    /\ (IsInspectTake /\ stopAt = 0 /\ Done /\ Len(nodes[1].items) > nodes[3].n)
        => /\ fwd[1] = nodes[3].n + 1
           /\ calls[2] = nodes[3].n + 1
           /\ Count(1) = nodes[3].n

TakePullsOneMoreReached ==
    /\ IsInspectTake /\ stopAt = 0 /\ Done
    /\ nodes[3].n >= 1 /\ Len(nodes[1].items) > nodes[3].n + 1
    /\ calls[2] = Count(1) + 1

\* S.take(n).chain(two) or S.take_while(p).chain(two)
IsCutChain ==
    /\ Len(nodes) = 4 /\ nodes[4].kind = "Chain"
    /\ nodes[2].kind \in {"Take", "TakeWhile"}

\* the consumer returned stop on the last element that one delivered
StoppedInOne(one) == stopped /\ Count(1) = fwd[one]

\* C19: Chain traverses two unless the consumer returned stop on the last
\* element one delivered; a stop that an adaptor inside one produced itself (Take
\* at its quota, TakeWhile on a failing predicate) leaves Chain's flag false, so
\* two is still traversed.
ChainIgnoresInnerStop ==
    (IsCutChain /\ Done) =>
        /\ trav[3] = (IF StoppedInOne(2) THEN 0 ELSE 1)
        /\ flag[4] = StoppedInOne(2)
        /\ (rets[1] # <<>> /\ rets[1][Len(rets[1])] /\ ~StoppedInOne(2))
              => /\ trav[3] = 1 /\ fwd[3] >= 1
                 /\ IsPrefix(SubSeq(out[1], fwd[2] + 1, Count(1)), nodes[3].items)
        /\ stopAt = 0 => out[1] = SubSeq(nodes[1].items, 1, fwd[2]) \o nodes[3].items

ChainIgnoresInnerStopReached ==
    /\ IsCutChain /\ Done /\ stopAt = 0
    /\ rets[1] # <<>> /\ rets[1][Len(rets[1])]
    /\ fwd[2] >= 1 /\ trav[3] = 1
    /\ Count(1) = fwd[2] + Len(nodes[3].items)

====
